---- MODULE Spec2Model ----
(***************************************************************************)
(* Model of the taxed-token launchpad client (ProgramControls.tsx) and of  *)
(* the fee computation of its integration test.                            *)
(*                                                                         *)
(* Every click handler is an asynchronous unit of work: the action that    *)
(* triggers it runs the synchronous code up to the first await on the      *)
(* transport, and one action per awaited transport call resumes it.  A     *)
(* handler reads the values its closure captured at the render it was      *)
(* triggered from (selectedMint, payerAta, wallet, mintAmount), not the    *)
(* current ones.                                                           *)
(***************************************************************************)
EXTENDS Integers, Sequences, FiniteSets, TLC

NoKey == "none"          \* null PublicKey (wallet not connected, no text)
NoMint == 0              \* selectedMint === null
NoAta == <<0, "none">>   \* payerAta === null

(* ----------------------------- bounds ---------------------------------- *)
MaxOps == 3          \* handler invocations in one run
MaxMints == 2        \* mint keypairs generated in one run
MaxSlots == 2        \* handlers in flight at the same time
MaxFeeAmount == 12   \* largest amount of the fee-computation checks
MaxFeeCap == 3       \* largest maximumFee of the fee-computation checks

(* ------------------------ program constants ---------------------------- *)
LogLimit == 20
Decimals == 6
TransferFeeBps == 100
MaximumFee == 1000000
DefaultMintAmount == 1000000
SuppliedFee == 0
BpsDenominator == 10000

(* ----------------------------- universe -------------------------------- *)
WalletKeys == {"W1"}                  \* keys the wallet adapter can connect
OwnerKeys == WalletKeys \cup {"R"}     \* keys that can own a token account
MintIds == 1..MaxMints
Slots == 1..MaxSlots
\* text typed into a recipient / destination field: empty, not a key, a key
KeyInputs == {"", "bad"} \cup OwnerKeys
\* a JavaScript number n/d; it is an integer when d = 1
Num(n, d) == <<n, d>>
IsInteger(x) == x[2] = 1
\* contents of the mint-amount field: an integer or a fraction (3/2 = 1.5)
MintAmountInputs == {Num(DefaultMintAmount, 1), Num(3, 2)}
\* contents of the transfer-amount field: empty or 0, an integer, a fraction
TransferAmountInputs == {Num(0, 1), Num(100000, 1), Num(3, 2)}

Min(a, b) == IF a <= b THEN a ELSE b

\* ceil(n / d) for n >= 0, d > 0
CeilDiv(n, d) == (n + d - 1) \div d

\* getAssociatedTokenAddress: the program-derived address of (mint, owner)
getAssociatedTokenAddress(mint, owner) == <<mint, owner>>

AllAtas == {getAssociatedTokenAddress(m, o) : m \in MintIds, o \in OwnerKeys}

VARIABLES
  logs,          \* useState<string[]>: newest first
  selectedMint,  \* useState<PublicKey | null>
  payerAta,      \* useState<PublicKey | null>
  payerBalance,  \* useState<string>: last observed amount
  mintAmount,    \* useState<number>
  wallet,        \* useWallet().publicKey, None when not connected
  ops,           \* the handlers in flight, one record per slot
  invocations,   \* number of handler invocations so far
  nextMint,      \* next mint keypair Keypair.generate() returns
  ledgerMints,   \* remote ledger: the mints
  ledgerAccounts, \* remote ledger: the token accounts
  feeCase,       \* integration test: the transfer whose fee it computes
  codecCase,     \* integration test: the transfer whose payload it encodes
  appended       \* every entry pushLog was called with, oldest first

tracked == <<selectedMint, payerAta, payerBalance>>
client == <<logs, selectedMint, payerAta, payerBalance, mintAmount>>
ledger == <<ledgerMints, ledgerAccounts>>
NoFeeCase == [amount |-> 0, feeBps |-> 0, maximumFee |-> 0, fee |-> -1]
NoCodecCase == [amount |-> <<0, 0, 0, 0>>, decimals |-> 0, fee |-> <<0, 0, 0, 0>>,
                data |-> <<>>]
vars == <<logs, selectedMint, payerAta, payerBalance, mintAmount, wallet, ops,
          invocations, nextMint, ledgerMints, ledgerAccounts, feeCase, codecCase,
          appended>>

(* ------------------------------ the log -------------------------------- *)
Take(s, n) == SubSeq(s, 1, Min(n, Len(s)))

\* pushLog slicing the old entries before it prepends the new one
pushLog_SliceFirst(l, s) == <<s>> \o Take(l, LogLimit)

\* pushLog: prepend, keep the newest LogLimit entries
pushLog(l, s) == Take(<<s>> \o l, LogLimit)

\* several pushLog calls of one synchronous run, in program order
RECURSIVE pushLogs(_, _)
pushLogs(l, ss) == IF ss = <<>> THEN l ELSE pushLogs(pushLog(l, Head(ss)), Tail(ss))


(* ------------------------- handlers in flight -------------------------- *)
\* A handler that is not running.  mint, pa, w are the closure's selectedMint,
\* payerAta and wallet.publicKey (for a create-mint: the generated mint);
\* calls, submits and confirms count the transport calls made, the transactions
\* handed to wallet.sendTransaction and the confirmation waits begun; existed tells whether the account the handler is about was on
\* the ledger when it was triggered, found whether the account query returned
\* it, answer what connection.getAccountInfo answered ("error" when it
\* rejected, "null", "account"); offered tells whether the handler's button was enabled when it was
\* triggered; result is the text of the entry the handler ended with.
IdleOp == [kind |-> "idle", pc |-> "idle", mint |-> NoMint, pa |-> NoAta,
           w |-> NoKey, owner |-> NoKey, amt |-> Num(0, 1), ata |-> NoAta,
           offered |-> FALSE, existed |-> FALSE, found |-> FALSE, status |-> "none", calls |-> 0, submits |-> 0,
           confirms |-> 0, answer |-> "none", result |-> ""]

\* whether the button of a handler is enabled (its `disabled` attribute is false)
ButtonEnabled(kind) ==
  CASE kind \in {"createTaxedToken", "createSoulboundToken"} -> wallet # NoKey
    [] kind = "mintTo" -> wallet # NoKey /\ payerAta # NoAta
    [] kind = "refreshPayerBalance" -> payerAta # NoAta
    [] OTHER -> wallet # NoKey /\ selectedMint # NoMint

\* the closure of a handler triggered now
NewOp(kind) == [IdleOp EXCEPT !.kind = kind, !.pc = "done", !.mint = selectedMint,
                              !.pa = payerAta, !.w = wallet,
                              !.offered = ButtonEnabled(kind)]

Free(s) == ops[s].pc \in {"idle", "done"}
HasFree == \E s \in Slots : Free(s)
FreeSlot == CHOOSE s \in Slots : Free(s) /\ \A t \in Slots : t < s => ~Free(t)
Running(s) == ops[s].pc \notin {"idle", "done"}

\* a click: the handler's synchronous part leaves the record op
Start(op) ==
  /\ invocations < MaxOps
  /\ HasFree
  /\ ops' = [ops EXCEPT ![FreeSlot] = op]
  /\ invocations' = invocations + 1

\* the handler returns after logging text
Ended(op, text) == [op EXCEPT !.pc = "done", !.result = text]

\* a mint address no mint was created at
NoLedgerMint == [kind |-> "none", authority |-> NoKey, feeAuthority |-> NoKey,
                 feeBps |-> 0, maximumFee |-> 0]

Init ==
  /\ logs = <<>>
  /\ selectedMint = NoMint
  /\ payerAta = NoAta
  /\ payerBalance = 0
  /\ mintAmount = Num(DefaultMintAmount, 1)
  /\ wallet = NoKey
  /\ ops = [s \in Slots |-> IdleOp]
  /\ invocations = 0
  /\ nextMint = 1
  /\ ledgerMints = [m \in MintIds |-> NoLedgerMint]
  /\ ledgerAccounts = [a \in AllAtas |-> [exists |-> FALSE, amount |-> 0, withheld |-> 0]]
  /\ feeCase = NoFeeCase
  /\ codecCase = NoCodecCase
  /\ appended = <<>>

(* --------------------------- the environment --------------------------- *)
\* the wallet adapter connects a wallet (autoConnect or the wallet button)
WalletConnect ==
  /\ wallet = NoKey
  /\ \E k \in WalletKeys : wallet' = k
  /\ UNCHANGED <<feeCase, codecCase, appended, client, ops, invocations, nextMint, ledger>>

WalletDisconnect ==
  /\ wallet # NoKey
  /\ wallet' = NoKey
  /\ UNCHANGED <<feeCase, codecCase, appended, client, ops, invocations, nextMint, ledger>>

\* onChange of the mint-amount field
SetMintAmount ==
  /\ \E x \in MintAmountInputs : x # mintAmount /\ mintAmount' = x
  /\ UNCHANGED <<feeCase, codecCase, appended, logs, tracked, wallet, ops, invocations, nextMint, ledger>>

(* ----------------------------- loadProgram ----------------------------- *)
\* the entry loadProgram logs for a wallet key w; it returns null when w is null
loadProgram(w) == IF w = NoKey THEN "Wallet not connected" ELSE "Program loaded"

\* the Load Program button
LoadProgramClick ==
  /\ invocations < MaxOps
  /\ invocations' = invocations + 1
  /\ logs' = pushLog(logs, loadProgram(wallet))
  /\ appended' = Append(appended, loadProgram(wallet))
  /\ UNCHANGED <<feeCase, codecCase, tracked, mintAmount, wallet, ops, nextMint, ledger>>

(* ----------------------------- create mint ----------------------------- *)
\* createTaxedToken / createSoulboundToken up to the awaited rpc()
createMint(kind, announce) ==
  LET op == NewOp(kind) IN
  IF wallet = NoKey
  THEN /\ Start(Ended(op, loadProgram(wallet)))
       /\ logs' = pushLog(logs, loadProgram(wallet))
       /\ appended' = Append(appended, loadProgram(wallet))
       /\ UNCHANGED <<feeCase, codecCase, tracked, mintAmount, wallet, nextMint, ledger>>
  ELSE /\ nextMint <= MaxMints
       /\ Start([op EXCEPT !.pc = "rpc", !.mint = nextMint, !.calls = 1])
       /\ nextMint' = nextMint + 1
       /\ logs' = pushLogs(logs, <<loadProgram(wallet), announce>>)
       /\ appended' = appended \o <<loadProgram(wallet), announce>>
       /\ UNCHANGED <<feeCase, codecCase, tracked, mintAmount, wallet, ledger>>

createTaxedToken == createMint("createTaxedToken", "Creating taxed token, mint")

createSoulboundToken == createMint("createSoulboundToken", "Creating soulbound token, mint")

\* the mint the remote program creates for a create-mint handler
CreatedMint(op) ==
  IF op.kind = "createTaxedToken"
  THEN [kind |-> "taxed", authority |-> op.w, feeAuthority |-> op.w,
        feeBps |-> TransferFeeBps, maximumFee |-> MaximumFee]
  ELSE [kind |-> "soulbound", authority |-> op.w, feeAuthority |-> NoKey,
        feeBps |-> 0, maximumFee |-> 0]

\* program.methods...rpc() resolves with a signature or rejects
RpcReturn ==
  \E s \in Slots : \E ok \in BOOLEAN :
    LET op == ops[s] IN
    /\ op.pc = "rpc"
    /\ IF ok
       THEN /\ ledgerMints' = [ledgerMints EXCEPT ![op.mint] = CreatedMint(op)]
            /\ logs' = pushLog(logs, op.kind \o " succeeded")
            /\ appended' = Append(appended, op.kind \o " succeeded")
            /\ selectedMint' = op.mint
            /\ ops' = [ops EXCEPT ![s] = Ended(op, op.kind \o " succeeded")]
       ELSE /\ logs' = pushLog(logs, op.kind \o " failed")
            /\ appended' = Append(appended, op.kind \o " failed")
            /\ ops' = [ops EXCEPT ![s] = Ended(op, op.kind \o " failed")]
            /\ UNCHANGED <<selectedMint, ledgerMints>>
    /\ UNCHANGED <<feeCase, codecCase, payerAta, payerBalance, mintAmount, wallet, invocations,
                   nextMint, ledgerAccounts>>

(* ------------------------------ texts ---------------------------------- *)
\* the entry a catch block logs: '<handler> failed: ' + e.message
FailureText(kind) == kind \o " failed"

\* the entry logged after the last await of a handler resolved
SuccessText(kind) ==
  CASE kind = "createPayerAta" -> "Created payer ATA"
    [] kind = "createRecipientAta" -> "Created recipient ATA"
    [] kind = "mintTo" -> "mintTo succeeded"
    [] kind = "transferWithFee" -> "TransferWithFee succeeded"
    [] kind = "withdrawWithheld" -> "withdrawWithheld succeeded"
    [] OTHER -> kind \o " succeeded"

\* the entry logged when getAccountInfo found the account
ExistsText(kind) ==
  IF kind = "createPayerAta" THEN "Payer ATA already exists" ELSE "Recipient ATA exists"

\* new PublicKey(v) throws on text that is no key
IsKey(v) == v \in OwnerKeys

(* -------------------------- the remote ledger -------------------------- *)
\* the fee the token program computes for a transfer of amount on mint
LedgerFee(mint, amount) ==
  Min(ledgerMints[mint].maximumFee,
      CeilDiv(amount * ledgerMints[mint].feeBps, BpsDenominator))

\* the payload of the hand-built TransferCheckedWithFee instruction
TransferData(amt) ==
  [selector |-> <<26, 1>>, amount |-> amt[1], decimals |-> Decimals, fee |-> SuppliedFee]

\* whether the remote programs accept the transaction handler op submits
TxValid(op) ==
  CASE op.kind \in {"createPayerAta", "createRecipientAta"} ->
         /\ ledgerMints[op.mint].kind # "none"
         /\ ~ledgerAccounts[op.ata].exists
    [] op.kind = "mintTo" ->
         /\ ledgerAccounts[op.pa].exists
         /\ op.pa[1] = op.mint
         /\ ledgerMints[op.mint].authority = op.w
    [] op.kind = "transferWithFee" ->
         LET src == getAssociatedTokenAddress(op.mint, op.w)
             data == TransferData(op.amt) IN
         /\ ledgerMints[op.mint].kind = "taxed"
         /\ ledgerAccounts[src].exists
         /\ ledgerAccounts[op.ata].exists
         /\ ledgerAccounts[src].amount >= data.amount
         /\ data.decimals = Decimals
         /\ data.fee = LedgerFee(op.mint, data.amount)
    [] op.kind = "withdrawWithheld" ->
         /\ ledgerMints[op.mint].kind = "taxed"
         /\ ledgerMints[op.mint].feeAuthority = op.w
         /\ ledgerAccounts[op.ata].exists
    [] OTHER -> FALSE

\* the token accounts after the transaction of handler op took effect
TxEffect(op) ==
  CASE op.kind \in {"createPayerAta", "createRecipientAta"} ->
         [ledgerAccounts EXCEPT ![op.ata].exists = TRUE]
    [] op.kind = "mintTo" ->
         [ledgerAccounts EXCEPT ![op.pa].amount = @ + op.amt[1]]
    [] op.kind = "transferWithFee" ->
         LET src == getAssociatedTokenAddress(op.mint, op.w)
             fee == LedgerFee(op.mint, op.amt[1])
             debited == [ledgerAccounts EXCEPT ![src].amount = @ - op.amt[1]] IN
         [debited EXCEPT ![op.ata].amount = @ + (op.amt[1] - fee),
                         ![op.ata].withheld = @ + fee]
    [] OTHER -> ledgerAccounts

(* --------------------------- create accounts --------------------------- *)
\* createPayerAta recording the derived address before the account is known
createPayerAta_Speculative ==
  LET op == NewOp("createPayerAta") IN
  IF selectedMint = NoMint
  THEN /\ Start(Ended(op, "No mint selected"))
       /\ logs' = pushLog(logs, "No mint selected")
       /\ appended' = Append(appended, "No mint selected")
       /\ UNCHANGED <<feeCase, codecCase, tracked, mintAmount, wallet, nextMint, ledger>>
  ELSE IF wallet = NoKey
  THEN /\ Start(Ended(op, "Wallet not connected"))
       /\ logs' = pushLog(logs, "Wallet not connected")
       /\ appended' = Append(appended, "Wallet not connected")
       /\ UNCHANGED <<feeCase, codecCase, tracked, mintAmount, wallet, nextMint, ledger>>
  ELSE /\ Start([op EXCEPT !.pc = "getAccountInfo", !.owner = wallet, !.calls = 1,
                           !.ata = getAssociatedTokenAddress(selectedMint, wallet),
                           !.existed = ledgerAccounts[
                              getAssociatedTokenAddress(selectedMint, wallet)].exists])
       /\ payerAta' = getAssociatedTokenAddress(selectedMint, wallet)
       /\ UNCHANGED <<feeCase, codecCase, appended, logs, selectedMint, payerBalance, mintAmount, wallet,
                      nextMint, ledger>>

\* createPayerAta up to the awaited getAccountInfo
createPayerAta ==
  LET op == NewOp("createPayerAta") IN
  IF selectedMint = NoMint
  THEN /\ Start(Ended(op, "No mint selected"))
       /\ logs' = pushLog(logs, "No mint selected")
       /\ appended' = Append(appended, "No mint selected")
       /\ UNCHANGED <<feeCase, codecCase, tracked, mintAmount, wallet, nextMint, ledger>>
  ELSE IF wallet = NoKey
  THEN /\ Start(Ended(op, "Wallet not connected"))
       /\ logs' = pushLog(logs, "Wallet not connected")
       /\ appended' = Append(appended, "Wallet not connected")
       /\ UNCHANGED <<feeCase, codecCase, tracked, mintAmount, wallet, nextMint, ledger>>
  ELSE /\ Start([op EXCEPT !.pc = "getAccountInfo", !.owner = wallet, !.calls = 1,
                           !.ata = getAssociatedTokenAddress(selectedMint, wallet),
                           !.existed = ledgerAccounts[
                              getAssociatedTokenAddress(selectedMint, wallet)].exists])
       /\ UNCHANGED <<feeCase, codecCase, appended, client, wallet, nextMint, ledger>>

\* the Create/Get Recipient ATA handler up to the awaited getAccountInfo
createRecipientAta ==
  \E v \in KeyInputs :
    LET op == NewOp("createRecipientAta") IN
    IF v = ""
    THEN /\ Start(Ended(op, "Enter recipient public key"))
         /\ logs' = pushLog(logs, "Enter recipient public key")
         /\ appended' = Append(appended, "Enter recipient public key")
         /\ UNCHANGED <<feeCase, codecCase, tracked, mintAmount, wallet, nextMint, ledger>>
    ELSE IF ~IsKey(v) \/ selectedMint = NoMint
    THEN /\ Start(Ended(op, FailureText(op.kind)))
         /\ logs' = pushLog(logs, FailureText(op.kind))
         /\ appended' = Append(appended, FailureText(op.kind))
         /\ UNCHANGED <<feeCase, codecCase, tracked, mintAmount, wallet, nextMint, ledger>>
    ELSE /\ Start([op EXCEPT !.pc = "getAccountInfo", !.owner = v, !.calls = 1,
                             !.ata = getAssociatedTokenAddress(selectedMint, v),
                             !.existed = ledgerAccounts[
                                getAssociatedTokenAddress(selectedMint, v)].exists])
         /\ UNCHANGED <<feeCase, codecCase, appended, client, wallet, nextMint, ledger>>

\* recording the account of either create handler when its owner is the
\* connected wallet
RecordedPayerAta_OwnAccount(op) ==
  IF op.kind = "createPayerAta" \/ (op.kind = "createRecipientAta" /\ op.owner = op.w)
  THEN op.ata ELSE payerAta

\* what the payer handler records once the account is known to exist or the
\* confirmation wait returned
RecordedPayerAta(op) == IF op.kind = "createPayerAta" THEN op.ata ELSE payerAta

\* the create handlers without the `if (info)` branch: they always go on to create
GetAccountInfoReturn_NoExistsCheck ==
  \E s \in Slots : \E ok \in BOOLEAN :
    LET op == ops[s]
        counted == [op EXCEPT !.calls = @ + 1] IN
    /\ op.pc = "getAccountInfo"
    /\ IF ~ok
       THEN /\ logs' = pushLog(logs, FailureText(op.kind))
            /\ appended' = Append(appended, FailureText(op.kind))
            /\ ops' = [ops EXCEPT ![s] = Ended(op, FailureText(op.kind))]
       ELSE IF op.w = NoKey
       THEN /\ logs' = pushLog(logs, FailureText(op.kind))
            /\ appended' = Append(appended, FailureText(op.kind))
            /\ ops' = [ops EXCEPT ![s] = Ended(counted, FailureText(op.kind))]
       ELSE /\ ops' = [ops EXCEPT ![s] = [counted EXCEPT !.pc = "send", !.submits = @ + 1]]
            /\ UNCHANGED <<logs, appended>>
    /\ UNCHANGED <<feeCase, codecCase, tracked, mintAmount, wallet, invocations, nextMint, ledger>>

\* the create handlers taking a rejected existence query for 'no account'
GetAccountInfoReturn_ErrorAsAbsent ==
  \E s \in Slots : \E ok \in BOOLEAN :
    LET op == ops[s]
        counted == [op EXCEPT !.calls = @ + 1, !.answer = IF ok THEN "null" ELSE "error"] IN
    /\ op.pc = "getAccountInfo"
    /\ IF ok /\ ledgerAccounts[op.ata].exists
       THEN /\ logs' = pushLog(logs, ExistsText(op.kind))
            /\ appended' = Append(appended, ExistsText(op.kind))
            /\ payerAta' = RecordedPayerAta(op)
            /\ ops' = [ops EXCEPT ![s] = Ended([op EXCEPT !.found = TRUE, !.answer = "account"],
                                               ExistsText(op.kind))]
       ELSE IF op.w = NoKey
       THEN /\ logs' = pushLog(logs, FailureText(op.kind))
            /\ appended' = Append(appended, FailureText(op.kind))
            /\ ops' = [ops EXCEPT ![s] = Ended(counted, FailureText(op.kind))]
            /\ UNCHANGED payerAta
       ELSE /\ ops' = [ops EXCEPT ![s] = [counted EXCEPT !.pc = "send", !.submits = @ + 1]]
            /\ UNCHANGED <<logs, appended, payerAta>>
    /\ UNCHANGED <<feeCase, codecCase, selectedMint, payerBalance, mintAmount, wallet, invocations,
                   nextMint, ledger>>

\* connection.getAccountInfo(ata) resolves (with the account or null) or rejects
GetAccountInfoReturn ==
  \E s \in Slots : \E ok \in BOOLEAN :
    LET op == ops[s]
        counted == [op EXCEPT !.calls = @ + 1, !.answer = "null"] IN
    /\ op.pc = "getAccountInfo"
    /\ IF ~ok
       THEN /\ logs' = pushLog(logs, FailureText(op.kind))
            /\ appended' = Append(appended, FailureText(op.kind))
            /\ ops' = [ops EXCEPT ![s] = Ended([op EXCEPT !.answer = "error"],
                                               FailureText(op.kind))]
            /\ UNCHANGED payerAta
       ELSE IF ledgerAccounts[op.ata].exists
       THEN /\ logs' = pushLog(logs, ExistsText(op.kind))
            /\ appended' = Append(appended, ExistsText(op.kind))
            /\ payerAta' = RecordedPayerAta(op)
            /\ ops' = [ops EXCEPT ![s] = Ended([op EXCEPT !.found = TRUE, !.answer = "account"],
                                               ExistsText(op.kind))]
       ELSE IF op.w = NoKey
       THEN \* wallet.sendTransaction rejects at once: no wallet is connected
            /\ logs' = pushLog(logs, FailureText(op.kind))
            /\ appended' = Append(appended, FailureText(op.kind))
            /\ ops' = [ops EXCEPT ![s] = Ended(counted, FailureText(op.kind))]
            /\ UNCHANGED payerAta
       ELSE /\ ops' = [ops EXCEPT ![s] = [counted EXCEPT !.pc = "send", !.submits = @ + 1]]
            /\ UNCHANGED <<logs, appended, payerAta>>
    /\ UNCHANGED <<feeCase, codecCase, selectedMint, payerBalance, mintAmount, wallet, invocations,
                   nextMint, ledger>>

(* ----------------------- submission, confirmation ---------------------- *)
\* Whether the transaction of handler op can be compiled into a message.  The
\* withdraw handler adds the value withdrawWithheldTokensFromMint(mint, dest,
\* authority) returns as the instruction; that function is the library's
\* asynchronous action (connection, payer, mint, destination, authority), so
\* the value is a pending promise, the instruction made of it has no program
\* id, and wallet.sendTransaction throws when it compiles the message.
Sendable(op) == op.kind # "withdrawWithheld"

\* a handler that hands its transaction to the wallet again after a rejection
SendTransactionReturn_Retry ==
  \E s \in Slots : \E accepted \in BOOLEAN :
    LET op == ops[s] IN
    /\ op.pc = "send"
    /\ IF ~accepted
       THEN /\ ops' = [ops EXCEPT ![s] = [op EXCEPT !.submits = @ + 1, !.calls = @ + 1]]
            /\ UNCHANGED <<logs, appended, ledgerAccounts>>
       ELSE /\ wallet = op.w
            /\ Sendable(op)
            /\ ledgerAccounts' = IF TxValid(op) THEN TxEffect(op) ELSE ledgerAccounts
            /\ ops' = [ops EXCEPT ![s] = [op EXCEPT !.pc = "confirm", !.calls = @ + 1,
                         !.confirms = @ + 1,
                         !.status = IF TxValid(op) THEN "ok" ELSE "err"]]
            /\ UNCHANGED <<logs, appended>>
    /\ UNCHANGED <<feeCase, codecCase, tracked, mintAmount, wallet, invocations, nextMint, ledgerMints>>

\* wallet.sendTransaction submitting whatever the handler gave it
SendTransactionReturn_AnySendable ==
  \E s \in Slots : \E accepted \in BOOLEAN :
    LET op == ops[s] IN
    /\ op.pc = "send"
    /\ IF ~accepted
       THEN /\ logs' = pushLog(logs, FailureText(op.kind))
            /\ appended' = Append(appended, FailureText(op.kind))
            /\ ops' = [ops EXCEPT ![s] = Ended(op, FailureText(op.kind))]
            /\ UNCHANGED ledgerAccounts
       ELSE /\ wallet = op.w
            /\ ledgerAccounts' = IF TxValid(op) THEN TxEffect(op) ELSE ledgerAccounts
            /\ ops' = [ops EXCEPT ![s] = [op EXCEPT !.pc = "confirm", !.calls = @ + 1,
                         !.confirms = @ + 1,
                         !.status = IF TxValid(op) THEN "ok" ELSE "err"]]
            /\ UNCHANGED <<logs, appended>>
    /\ UNCHANGED <<feeCase, codecCase, tracked, mintAmount, wallet, invocations, nextMint, ledgerMints>>

\* wallet.sendTransaction(tx, connection) rejects, or resolves with the signature
\* of a transaction the ledger has processed (with or without an error)
SendTransactionReturn ==
  \E s \in Slots : \E accepted \in BOOLEAN :
    LET op == ops[s] IN
    /\ op.pc = "send"
    /\ IF ~accepted
       THEN /\ logs' = pushLog(logs, FailureText(op.kind))
            /\ appended' = Append(appended, FailureText(op.kind))
            /\ ops' = [ops EXCEPT ![s] = Ended(op, FailureText(op.kind))]
            /\ UNCHANGED ledgerAccounts
       ELSE /\ wallet = op.w
            /\ Sendable(op)
            /\ ledgerAccounts' = IF TxValid(op) THEN TxEffect(op) ELSE ledgerAccounts
            /\ ops' = [ops EXCEPT ![s] = [op EXCEPT !.pc = "confirm", !.calls = @ + 1,
                         !.confirms = @ + 1,
                         !.status = IF TxValid(op) THEN "ok" ELSE "err"]]
            /\ UNCHANGED <<logs, appended>>
    /\ UNCHANGED <<feeCase, codecCase, tracked, mintAmount, wallet, invocations, nextMint, ledgerMints>>

\* the handlers taking over the balance of the payer account once their
\* transaction is confirmed
ConfirmTransactionReturn_RefreshesBalance ==
  \E s \in Slots : \E resolved \in BOOLEAN :
    LET op == ops[s] IN
    /\ op.pc = "confirm"
    /\ IF resolved
       THEN /\ logs' = pushLog(logs, SuccessText(op.kind))
            /\ appended' = Append(appended, SuccessText(op.kind))
            /\ payerAta' = RecordedPayerAta(op)
            /\ payerBalance' = IF op.pa # NoAta THEN ledgerAccounts[op.pa].amount
                               ELSE payerBalance
            /\ ops' = [ops EXCEPT ![s] = Ended(op, SuccessText(op.kind))]
       ELSE /\ logs' = pushLog(logs, FailureText(op.kind))
            /\ appended' = Append(appended, FailureText(op.kind))
            /\ ops' = [ops EXCEPT ![s] = Ended(op, FailureText(op.kind))]
            /\ UNCHANGED <<payerAta, payerBalance>>
    /\ UNCHANGED <<feeCase, codecCase, selectedMint, mintAmount, wallet, invocations,
                   nextMint, ledger>>

\* connection.confirmTransaction(sig, 'confirmed') resolves with the status of
\* the transaction, which the handlers do not read, or rejects
ConfirmTransactionReturn ==
  \E s \in Slots : \E resolved \in BOOLEAN :
    LET op == ops[s] IN
    /\ op.pc = "confirm"
    /\ IF resolved
       THEN /\ logs' = pushLog(logs, SuccessText(op.kind))
            /\ appended' = Append(appended, SuccessText(op.kind))
            /\ payerAta' = RecordedPayerAta(op)
            /\ ops' = [ops EXCEPT ![s] = Ended(op, SuccessText(op.kind))]
       ELSE /\ logs' = pushLog(logs, FailureText(op.kind))
            /\ appended' = Append(appended, FailureText(op.kind))
            /\ ops' = [ops EXCEPT ![s] = Ended(op, FailureText(op.kind))]
            /\ UNCHANGED payerAta
    /\ UNCHANGED <<feeCase, codecCase, selectedMint, payerBalance, mintAmount, wallet, invocations,
                   nextMint, ledger>>

(* -------------------------------- mint-to ------------------------------ *)
\* mintToPayer() up to the awaited sendTransaction; BigInt(mintAmount) is
\* evaluated outside the try block
mintToPayer ==
  LET op == NewOp("mintTo") IN
  IF selectedMint = NoMint \/ payerAta = NoAta
  THEN /\ Start(Ended(op, "Missing mint or payer ATA"))
       /\ logs' = pushLog(logs, "Missing mint or payer ATA")
       /\ appended' = Append(appended, "Missing mint or payer ATA")
       /\ UNCHANGED <<feeCase, codecCase, tracked, mintAmount, wallet, nextMint, ledger>>
  ELSE IF wallet = NoKey
  THEN /\ Start(Ended(op, "Wallet not connected"))
       /\ logs' = pushLog(logs, "Wallet not connected")
       /\ appended' = Append(appended, "Wallet not connected")
       /\ UNCHANGED <<feeCase, codecCase, tracked, mintAmount, wallet, nextMint, ledger>>
  ELSE IF ~IsInteger(mintAmount)
  THEN /\ Start(Ended([op EXCEPT !.amt = mintAmount], ""))
       /\ UNCHANGED <<feeCase, codecCase, appended, client, wallet, nextMint, ledger>>
  ELSE /\ Start([op EXCEPT !.pc = "send", !.amt = mintAmount, !.calls = 1, !.submits = 1])
       /\ UNCHANGED <<feeCase, codecCase, appended, client, wallet, nextMint, ledger>>

(* ------------------------------ inspection ----------------------------- *)
\* refreshPayerBalance up to the awaited getAccount
refreshPayerBalance ==
  LET op == NewOp("refreshPayerBalance") IN
  IF payerAta = NoAta
  THEN /\ Start(Ended(op, "No payer ATA"))
       /\ logs' = pushLog(logs, "No payer ATA")
       /\ appended' = Append(appended, "No payer ATA")
       /\ UNCHANGED <<feeCase, codecCase, tracked, mintAmount, wallet, nextMint, ledger>>
  ELSE /\ Start([op EXCEPT !.pc = "getAccount", !.ata = payerAta, !.calls = 1])
       /\ UNCHANGED <<feeCase, codecCase, appended, client, wallet, nextMint, ledger>>

\* the Inspect Recipient ATA handler up to the awaited getAccount
inspectRecipient ==
  \E v \in KeyInputs :
    LET op == NewOp("inspectRecipient") IN
    IF v = ""
    THEN /\ Start(Ended(op, "Enter recipient public key"))
         /\ logs' = pushLog(logs, "Enter recipient public key")
         /\ appended' = Append(appended, "Enter recipient public key")
         /\ UNCHANGED <<feeCase, codecCase, tracked, mintAmount, wallet, nextMint, ledger>>
    ELSE IF ~IsKey(v) \/ selectedMint = NoMint
    THEN /\ Start(Ended(op, FailureText(op.kind)))
         /\ logs' = pushLog(logs, FailureText(op.kind))
         /\ appended' = Append(appended, FailureText(op.kind))
         /\ UNCHANGED <<feeCase, codecCase, tracked, mintAmount, wallet, nextMint, ledger>>
    ELSE /\ Start([op EXCEPT !.pc = "getAccount", !.owner = v, !.calls = 1,
                             !.ata = getAssociatedTokenAddress(selectedMint, v)])
         /\ UNCHANGED <<feeCase, codecCase, appended, client, wallet, nextMint, ledger>>

\* the inspections recording the inspected account as the payer account
GetAccountReturn_RecordsAccount ==
  \E s \in Slots : \E ok \in BOOLEAN :
    LET op == ops[s]
        text == IF op.kind = "refreshPayerBalance"
                THEN "Payer ATA balance" ELSE "Recipient ATA balance" IN
    /\ op.pc = "getAccount"
    /\ IF ok
       THEN /\ ledgerAccounts[op.ata].exists
            /\ payerBalance' = IF op.kind = "refreshPayerBalance"
                               THEN ledgerAccounts[op.ata].amount ELSE payerBalance
            /\ payerAta' = op.ata
            /\ logs' = pushLog(logs, text)
            /\ appended' = Append(appended, text)
            /\ ops' = [ops EXCEPT ![s] = Ended([op EXCEPT !.found = TRUE], text)]
       ELSE /\ logs' = pushLog(logs, FailureText(op.kind))
            /\ appended' = Append(appended, FailureText(op.kind))
            /\ ops' = [ops EXCEPT ![s] = Ended(op, FailureText(op.kind))]
            /\ UNCHANGED <<payerBalance, payerAta>>
    /\ UNCHANGED <<feeCase, codecCase, selectedMint, mintAmount, wallet, invocations,
                   nextMint, ledger>>

\* getAccount(connection, ata) resolves with the token account or rejects
\* (it rejects when there is no such account)
GetAccountReturn ==
  \E s \in Slots : \E ok \in BOOLEAN :
    LET op == ops[s] IN
    /\ op.pc = "getAccount"
    /\ IF ok
       THEN /\ ledgerAccounts[op.ata].exists
            /\ payerBalance' = IF op.kind = "refreshPayerBalance"
                               THEN ledgerAccounts[op.ata].amount ELSE payerBalance
            /\ logs' = pushLog(logs, IF op.kind = "refreshPayerBalance"
                                     THEN "Payer ATA balance" ELSE "Recipient ATA balance")
            /\ appended' = Append(appended, IF op.kind = "refreshPayerBalance"
                                            THEN "Payer ATA balance" ELSE "Recipient ATA balance")
            /\ ops' = [ops EXCEPT ![s] = Ended([op EXCEPT !.found = TRUE],
                         IF op.kind = "refreshPayerBalance"
                         THEN "Payer ATA balance" ELSE "Recipient ATA balance")]
       ELSE /\ logs' = pushLog(logs, FailureText(op.kind))
            /\ appended' = Append(appended, FailureText(op.kind))
            /\ ops' = [ops EXCEPT ![s] = Ended(op, FailureText(op.kind))]
            /\ UNCHANGED payerBalance
    /\ UNCHANGED <<feeCase, codecCase, selectedMint, payerAta, mintAmount, wallet, invocations,
                   nextMint, ledger>>

(* --------------------------- transfer with fee ------------------------- *)
\* the Transfer With Fee handler up to the awaited sendTransaction
transferWithFee ==
  \E v \in KeyInputs : \E a \in TransferAmountInputs :
    LET op == NewOp("transferWithFee") IN
    IF v = "" \/ a[1] = 0
    THEN /\ Start(Ended(op, "Provide recipient and amount"))
         /\ logs' = pushLog(logs, "Provide recipient and amount")
         /\ appended' = Append(appended, "Provide recipient and amount")
         /\ UNCHANGED <<feeCase, codecCase, tracked, mintAmount, wallet, nextMint, ledger>>
    ELSE IF ~IsKey(v) \/ selectedMint = NoMint \/ ~IsInteger(a) \/ wallet = NoKey
    THEN /\ Start(Ended([op EXCEPT !.amt = a], FailureText(op.kind)))
         /\ logs' = pushLog(logs, FailureText(op.kind))
         /\ appended' = Append(appended, FailureText(op.kind))
         /\ UNCHANGED <<feeCase, codecCase, tracked, mintAmount, wallet, nextMint, ledger>>
    ELSE /\ Start([op EXCEPT !.pc = "send", !.owner = v, !.amt = a, !.calls = 1,
                             !.submits = 1,
                             !.ata = getAssociatedTokenAddress(selectedMint, v)])
         /\ UNCHANGED <<feeCase, codecCase, appended, client, wallet, nextMint, ledger>>

(* --------------------------- withdraw withheld ------------------------- *)
\* the Withdraw Withheld handler up to the awaited sendTransaction; the text
\* names the destination account by its owner
withdrawWithheld ==
  \E v \in KeyInputs :
    LET op == NewOp("withdrawWithheld") IN
    IF selectedMint = NoMint
    THEN /\ Start(Ended(op, "No mint selected"))
         /\ logs' = pushLog(logs, "No mint selected")
         /\ appended' = Append(appended, "No mint selected")
         /\ UNCHANGED <<feeCase, codecCase, tracked, mintAmount, wallet, nextMint, ledger>>
    ELSE IF v = ""
    THEN /\ Start(Ended(op, "Enter destination ATA pubkey"))
         /\ logs' = pushLog(logs, "Enter destination ATA pubkey")
         /\ appended' = Append(appended, "Enter destination ATA pubkey")
         /\ UNCHANGED <<feeCase, codecCase, tracked, mintAmount, wallet, nextMint, ledger>>
    ELSE IF ~IsKey(v) \/ wallet = NoKey
    THEN /\ Start(Ended(op, FailureText(op.kind)))
         /\ logs' = pushLog(logs, FailureText(op.kind))
         /\ appended' = Append(appended, FailureText(op.kind))
         /\ UNCHANGED <<feeCase, codecCase, tracked, mintAmount, wallet, nextMint, ledger>>
    ELSE /\ Start([op EXCEPT !.pc = "send", !.owner = v, !.calls = 1, !.submits = 1,
                             !.ata = getAssociatedTokenAddress(selectedMint, v)])
         /\ UNCHANGED <<feeCase, codecCase, appended, client, wallet, nextMint, ledger>>

Next ==
  \/ WalletConnect
  \/ WalletDisconnect
  \/ SetMintAmount
  \/ LoadProgramClick
  \/ createTaxedToken
  \/ createSoulboundToken
  \/ RpcReturn
  \/ createPayerAta
  \/ createRecipientAta
  \/ GetAccountInfoReturn
  \/ SendTransactionReturn
  \/ ConfirmTransactionReturn
  \/ mintToPayer
  \/ refreshPayerBalance
  \/ inspectRecipient
  \/ GetAccountReturn
  \/ transferWithFee
  \/ withdrawWithheld

Spec == Init /\ [][Next]_vars

(* ------------- runs that start with a mint and a payer account -------- *)
\* The state after the wallet W1 connected, created a mint (taxed or soulbound)
\* and created its payer account, each confirmed; the run has MaxOps - 1
\* invocations left.
InitReady ==
  \E kind \in {"createTaxedToken", "createSoulboundToken"} :
    LET w == "W1"
        ata == getAssociatedTokenAddress(1, w)
        made == [IdleOp EXCEPT !.kind = kind, !.mint = 1, !.w = w]
        last == [IdleOp EXCEPT !.kind = "createPayerAta", !.pc = "done", !.mint = 1,
                               !.offered = TRUE,
                               !.w = w, !.owner = w, !.ata = ata, !.status = "ok",
                               !.calls = 3, !.submits = 1, !.confirms = 1,
                               !.answer = "null",
                               !.result = SuccessText("createPayerAta")] IN
    /\ logs = <<SuccessText("createPayerAta"), SuccessText(kind),
                IF kind = "createTaxedToken" THEN "Creating taxed token, mint"
                ELSE "Creating soulbound token, mint", loadProgram(w)>>
    /\ selectedMint = 1
    /\ payerAta = ata
    /\ payerBalance = 0
    /\ mintAmount = Num(DefaultMintAmount, 1)
    /\ wallet = w
    /\ ops = [s \in Slots |-> IF s = 1 THEN last ELSE IdleOp]
    /\ invocations = 1
    /\ nextMint = 2
    /\ ledgerMints = [m \in MintIds |-> IF m = 1 THEN CreatedMint(made) ELSE NoLedgerMint]
    /\ ledgerAccounts = [a \in AllAtas |->
                           [exists |-> a = ata, amount |-> 0, withheld |-> 0]]
    /\ feeCase = NoFeeCase
    /\ codecCase = NoCodecCase
    /\ appended = <<loadProgram(w),
                    IF kind = "createTaxedToken" THEN "Creating taxed token, mint"
                    ELSE "Creating soulbound token, mint",
                    SuccessText(kind), SuccessText("createPayerAta")>>

SpecReady == InitReady /\ [][Next]_vars

(* ---------- runs that start with both accounts and a funded payer ------ *)
\* The state after the wallet W1 connected, created a mint (taxed or
\* soulbound), its payer account and the account of the recipient R, and minted
\* the default amount to the payer account, each confirmed; the run has
\* MaxOps - 1 invocations left.
InitFunded ==
  \E kind \in {"createTaxedToken", "createSoulboundToken"} :
    LET w == "W1"
        ata == getAssociatedTokenAddress(1, w)
        rcp == getAssociatedTokenAddress(1, "R")
        made == [IdleOp EXCEPT !.kind = kind, !.mint = 1, !.w = w]
        last == [IdleOp EXCEPT !.kind = "mintTo", !.pc = "done", !.mint = 1, !.pa = ata,
                               !.offered = TRUE, !.w = w,
                               !.amt = Num(DefaultMintAmount, 1), !.status = "ok",
                               !.calls = 2, !.submits = 1, !.confirms = 1,
                               !.result = SuccessText("mintTo")]
        entries == <<loadProgram(w),
                     IF kind = "createTaxedToken" THEN "Creating taxed token, mint"
                     ELSE "Creating soulbound token, mint",
                     SuccessText(kind), SuccessText("createPayerAta"),
                     SuccessText("createRecipientAta"), SuccessText("mintTo")>> IN
    /\ logs = [i \in 1..Len(entries) |-> entries[Len(entries) + 1 - i]]
    /\ selectedMint = 1
    /\ payerAta = ata
    /\ payerBalance = 0
    /\ mintAmount = Num(DefaultMintAmount, 1)
    /\ wallet = w
    /\ ops = [s \in Slots |-> IF s = 1 THEN last ELSE IdleOp]
    /\ invocations = 1
    /\ nextMint = 2
    /\ ledgerMints = [m \in MintIds |-> IF m = 1 THEN CreatedMint(made) ELSE NoLedgerMint]
    /\ ledgerAccounts = [a \in AllAtas |->
                           [exists |-> a \in {ata, rcp},
                            amount |-> IF a = ata THEN DefaultMintAmount ELSE 0,
                            withheld |-> 0]]
    /\ feeCase = NoFeeCase
    /\ codecCase = NoCodecCase
    /\ appended = entries

SpecFunded == InitFunded /\ [][Next]_vars

(* ------------- runs in which the recipient connects a wallet too ------- *)
\* the wallet adapter connects the wallet of the key R
RecipientWalletConnect ==
  /\ wallet = NoKey
  /\ wallet' = "R"
  /\ UNCHANGED <<feeCase, codecCase, appended, client, ops, invocations, nextMint, ledger>>

NextAuthority == Next \/ RecipientWalletConnect

SpecAuthority == InitFunded /\ [][NextAuthority]_vars

(* ----------------- the fee computed by the integration test ------------ *)
FeeBpsInputs == {0, 1, 100, 5000, 10000}

\* Math.ceil((transferAmount * transferFeeBps) / 10000); the doubles are exact
\* for the products below 2^53 that the inputs here stay under
testFee(transferAmount, transferFeeBps) ==
  CeilDiv(transferAmount * transferFeeBps, BpsDenominator)

\* the test about to compute the fee of one transfer on one fee configuration
InitFee ==
  /\ Init!1 /\ Init!2 /\ Init!3 /\ Init!4 /\ Init!5 /\ Init!6 /\ Init!7
  /\ Init!8 /\ Init!9 /\ Init!10 /\ Init!11 /\ Init!13 /\ Init!14
  /\ feeCase \in [amount : 0..MaxFeeAmount, feeBps : FeeBpsInputs,
                  maximumFee : 0..MaxFeeCap, fee : {-1}]

\* const fee = Math.ceil(...)
ComputeFee ==
  /\ feeCase.fee = -1
  /\ feeCase' = [feeCase EXCEPT !.fee = testFee(feeCase.amount, feeCase.feeBps)]
  /\ UNCHANGED <<codecCase, appended, client, wallet, ops, invocations, nextMint, ledger>>

NextFee == ComputeFee

SpecFee == InitFee /\ [][NextFee]_vars

(* ---------------- runs that start with a nearly full log --------------- *)
\* entries logged before the run starts: two fewer than the log keeps
PriorLoads == LogLimit - 2

\* The state after PriorLoads clicks on Load Program, the wallet W1 connecting
\* before every second click and disconnecting after it, except after the last
\* one; the run has MaxOps invocations left.
InitLog ==
  LET entries == [i \in 1..PriorLoads |-> IF i % 2 = 1 THEN loadProgram(NoKey)
                                         ELSE loadProgram("W1")] IN
  /\ logs = [i \in 1..PriorLoads |-> entries[PriorLoads + 1 - i]]
  /\ Init!2 /\ Init!3 /\ Init!4 /\ Init!5
  /\ wallet = IF PriorLoads % 2 = 0 /\ PriorLoads > 0 THEN "W1" ELSE NoKey
  /\ Init!7 /\ Init!8 /\ Init!9 /\ Init!10 /\ Init!11 /\ Init!12 /\ Init!13
  /\ appended = entries

SpecLog == InitLog /\ [][Next]_vars

(* ------------- the payload built for a transfer with fee --------------- *)
\* An unsigned 64-bit value is held as its four 16-bit limbs, least significant
\* first: <<a, b, c, d>> is a + b * 2^16 + c * 2^32 + d * 2^48.
U64(a, b, c, d) == <<a, b, c, d>>

\* 0, 255, 256, 1000, 100000, 2^32, 0x0102030405060708, 2^64 - 1
U64Inputs == {U64(0, 0, 0, 0), U64(255, 0, 0, 0), U64(256, 0, 0, 0),
              U64(1000, 0, 0, 0), U64(34464, 1, 0, 0), U64(0, 0, 1, 0),
              U64(1800, 1286, 772, 258), U64(65535, 65535, 65535, 65535)}

DecimalsInputs == {0, Decimals, 255}

\* u64ToBufferLE written most significant byte first
u64ToBufferLE_BigEndian(n) ==
  [i \in 1..8 |-> LET limb == n[(10 - i) \div 2] IN
                  IF i % 2 = 1 THEN limb \div 256 ELSE limb % 256]

\* u64ToBufferLE: Buffer.alloc(8) filled by writeBigUInt64LE(BigInt(n)), the
\* least significant byte first
u64ToBufferLE(n) ==
  [i \in 1..8 |-> LET limb == n[(i + 1) \div 2] IN
                  IF i % 2 = 1 THEN limb % 256 ELSE limb \div 256]

\* Buffer.concat([Buffer.from([26, 1]), u64ToBufferLE(amount),
\*                Buffer.from([decimals]), u64ToBufferLE(fee)])
TransferPayload(amount, decimals, fee) ==
  <<26, 1>> \o u64ToBufferLE(amount) \o <<decimals % 256>> \o u64ToBufferLE(fee)

\* the payload is about to be built for one amount, decimals and fee
InitCodec ==
  /\ Init!1 /\ Init!2 /\ Init!3 /\ Init!4 /\ Init!5 /\ Init!6 /\ Init!7
  /\ Init!8 /\ Init!9 /\ Init!10 /\ Init!11 /\ Init!12 /\ Init!14
  /\ codecCase \in [amount : U64Inputs, decimals : DecimalsInputs, fee : U64Inputs,
                    data : {<<>>}]

\* const data = Buffer.concat([...])
BuildTransferData ==
  /\ codecCase.data = <<>>
  /\ codecCase' = [codecCase EXCEPT !.data = TransferPayload(codecCase.amount,
                                        codecCase.decimals, codecCase.fee)]
  /\ UNCHANGED <<feeCase, appended, client, wallet, ops, invocations, nextMint, ledger>>

NextCodec == BuildTransferData

SpecCodec == InitCodec /\ [][NextCodec]_vars

(* --------- the payload built by the soulbound transfer attempt -------- *)
\* buf.writeBigUInt64LE(n, offset): the 8 bytes of n, least significant first,
\* written over the bytes offset .. offset + 7 of buf (byte 0 is buf[1])
writeBigUInt64LE(buf, n, offset) ==
  [i \in 1..Len(buf) |-> IF i - 1 >= offset /\ i - 1 <= offset + 7
                         THEN u64ToBufferLE(n)[i - offset] ELSE buf[i]]

\* the byte offset data2.writeBigUInt64LE(BigInt(100_000), 1) writes at
AmountWriteOffset == 1

\* Buffer.alloc(8, 0)
ZeroBytes8 == [i \in 1..8 |-> 0]

\* data2: Buffer.concat([Buffer.from([26, 1]), Buffer.alloc(8, 0),
\* Buffer.from([decimals]), feeBuf]), then the amount written into it
SoulboundTransferPayload(amount, decimals, fee) ==
  writeBigUInt64LE(<<26, 1>> \o ZeroBytes8 \o <<decimals % 256>> \o u64ToBufferLE(fee),
                   amount, AmountWriteOffset)

\* const data2 = Buffer.concat([...]); data2.writeBigUInt64LE(...)
BuildSoulboundTransferData ==
  /\ codecCase.data = <<>>
  /\ codecCase' = [codecCase EXCEPT !.data = SoulboundTransferPayload(codecCase.amount,
                                        codecCase.decimals, codecCase.fee)]
  /\ UNCHANGED <<feeCase, appended, client, wallet, ops, invocations, nextMint, ledger>>

NextSoulboundCodec == BuildSoulboundTransferData

SpecSoulboundCodec == InitCodec /\ [][NextSoulboundCodec]_vars

(* ======================================================================= *)
(* The claims                                                              *)
(* ======================================================================= *)
Ops == {ops[s] : s \in Slots}
Done(op) == op.pc = "done"
CreateMintKinds == {"createTaxedToken", "createSoulboundToken"}
CreateAtaKinds == {"createPayerAta", "createRecipientAta"}

\* handler s ends in this step
Ends(s) == Running(s) /\ ops'[s].pc = "done"

C2_FailureOnlyLogs ==
  [][ \A s \in Slots :
        ( /\ Ends(s)
          /\ ops[s].pc \in {"rpc", "send", "confirm"}
          /\ \/ ops'[s].result = FailureText(ops[s].kind)
             \/ ops[s].pc = "confirm" /\ ops[s].status = "err" )
        => /\ tracked' = tracked
           /\ logs' = pushLog(logs, FailureText(ops[s].kind))
    ]_vars

\* C3: whenever payerAta is set (and a wallet is connected) it is the address
\* derived from the selected mint and the wallet's key, and a submitted
\* mint-to targets an account of the mint it mints.
C3_PayerAtaOfSelectedMint ==
  /\ (payerAta # NoAta /\ wallet # NoKey)
        => payerAta = getAssociatedTokenAddress(selectedMint, wallet)
  /\ \A op \in Ops : (op.kind = "mintTo" /\ op.submits > 0) => op.pa[1] = op.mint

\* C4: the step in which a confirmed create-mint replaces the selected mint by
\* another one leaves payerAta unset and the recorded payer balance reset.
C4_SwitchDiscardsAccountState ==
  [][ (selectedMint # NoMint /\ selectedMint' # selectedMint)
        => (payerAta' = NoAta /\ payerBalance' = 0) ]_vars

\* C5: a handler invoked while no wallet is connected makes no transport call
\* and ends with the not-connected entry (stated for the invocations the
\* buttons allow).
C5_NotConnectedNoTransport ==
  \A op \in Ops :
    (op.offered /\ op.w = NoKey)
      => /\ op.calls = 0
         /\ Done(op) => op.result = "Wallet not connected"

\* C6: a handler invoked with a precondition missing (no wallet, no selected
\* mint, no recorded payer account for the operations that spend from or mint
\* to it) submits no transaction (stated for the invocations the buttons
\* allow), and mint-to ends with different entries for 'no mint' and for 'no
\* payer account'.
C6_MissingPreconditionFailsFast ==
  /\ \A op \in Ops :
       /\ (op.offered /\ op.w = NoKey) => op.submits = 0
       /\ (op.offered /\ op.kind \notin CreateMintKinds /\ op.mint = NoMint)
             => op.submits = 0
       /\ (op.offered /\ op.kind \in {"mintTo", "transferWithFee"} /\ op.pa = NoAta)
             => op.submits = 0
  /\ \A a, b \in Ops :
       ( /\ a.kind = "mintTo" /\ Done(a) /\ a.mint = NoMint
         /\ b.kind = "mintTo" /\ Done(b) /\ b.mint # NoMint /\ b.pa = NoAta )
       => a.result # b.result

\* C7: a create-account handler to which the existence query reports the
\* account submits nothing and ends with the 'exists' entry (the payer handler
\* recording the derived address in that step), and a handler triggered when
\* the account was already on the ledger never submits a create instruction.
C7_CreateAccountIdempotent ==
  [][ /\ \A s \in Slots :
           (ops'[s].kind \in CreateAtaKinds /\ ops'[s].existed) => ops'[s].submits = 0
      /\ \A s \in Slots :
           (ops'[s].kind \in CreateAtaKinds /\ ops'[s].found)
             => /\ ops'[s].submits = 0 /\ ops'[s].pc = "done"
                /\ ops'[s].result = ExistsText(ops'[s].kind)
      /\ \A s \in Slots :
           (ops[s].kind = "createPayerAta" /\ ops[s].pc = "getAccountInfo" /\ ops'[s].found)
             => payerAta' = getAssociatedTokenAddress(ops[s].mint, ops[s].w)
    ]_vars

\* the payer account was requested again after its creation: found, nothing
\* submitted, the derived address recorded
C7_Witness ==
  \E op \in Ops : /\ op.kind = "createPayerAta" /\ Done(op)
                  /\ op.existed /\ op.found /\ op.submits = 0
                  /\ op.result = ExistsText(op.kind)
                  /\ payerAta = getAssociatedTokenAddress(op.mint, op.w)

\* C8: a handler whose transaction the ledger rejected never ends with a
\* success entry.
C8_RejectedNeverSucceeds ==
  \A op \in Ops : (Done(op) /\ op.status = "err") => op.result = FailureText(op.kind)

\* C9: the fee written into a transfer-with-fee submitted on a fee-bearing
\* mint is min(maximumFee, ceil(amount * feeBps / 10000)).
C9_SuppliedFeeIsComputed ==
  \A op \in Ops :
    (op.kind = "transferWithFee" /\ op.submits > 0 /\ ledgerMints[op.mint].kind = "taxed")
      => TransferData(op.amt).fee =
           Min(ledgerMints[op.mint].maximumFee,
               CeilDiv(op.amt[1] * ledgerMints[op.mint].feeBps, BpsDenominator))

readBigUInt64LE(buf, o) == [j \in 1..4 |-> buf[o + 2 * j - 1] + 256 * buf[o + 2 * j]]

\* C11: the payload built for amount, decimals and fee has 19 bytes: 26, 1,
\* the 8 bytes of amount least significant first, decimals, the 8 bytes of
\* fee least significant first; reading the two 8-byte fields back gives
\* amount and fee.
C11_PayloadLayout ==
  codecCase.data # <<>>
    => LET d == codecCase.data IN
       /\ Len(d) = 19
       /\ \A i \in 1..Len(d) : d[i] \in 0..255
       /\ d[1] = 26 /\ d[2] = 1
       /\ readBigUInt64LE(d, 2) = codecCase.amount
       /\ d[11] = codecCase.decimals
       /\ readBigUInt64LE(d, 11) = codecCase.fee

\* amount 100000, decimals 6, fee 1000 have been encoded
C11_Witness ==
  /\ codecCase.amount = U64(34464, 1, 0, 0)
  /\ codecCase.decimals = 6
  /\ codecCase.fee = U64(1000, 0, 0, 0)
  /\ codecCase.data = <<26, 1, 160, 134, 1, 0, 0, 0, 0, 0, 6, 232, 3, 0, 0, 0, 0, 0, 0>>

\* C12: when the ledger processes a transfer-with-fee of amount a that the
\* client submitted on a fee-bearing mint, from a payer account holding at
\* least a to the existing account of another owner, the transfer succeeds and
\* the recipient account gains a - fee while its withheld amount gains fee,
\* fee = min(maximumFee, ceil(a * feeBps / 10000)) (1000 and 99000 for a
\* transfer of 100000 at 100 basis points).
C12_TransferWithholdsFee ==
  [][ \A s \in Slots :
        LET op == ops[s]
            a == op.amt[1]
            src == getAssociatedTokenAddress(op.mint, op.w)
            fee == Min(ledgerMints[op.mint].maximumFee,
                       CeilDiv(a * ledgerMints[op.mint].feeBps, BpsDenominator)) IN
        ( /\ op.kind = "transferWithFee" /\ op.pc = "send" /\ ops'[s].pc = "confirm"
          /\ ledgerMints[op.mint].kind = "taxed"
          /\ src # op.ata
          /\ ledgerAccounts[src].exists /\ ledgerAccounts[op.ata].exists
          /\ ledgerAccounts[src].amount >= a )
        => /\ ops'[s].status = "ok"
           /\ ledgerAccounts'[op.ata].amount = ledgerAccounts[op.ata].amount + a - fee
           /\ ledgerAccounts'[op.ata].withheld = ledgerAccounts[op.ata].withheld + fee
    ]_vars

\* C13: on a non-transferable mint no transfer moves tokens (the accounts of
\* the owners that are no mint authority stay empty, nothing is withheld and
\* the payer keeps what was minted), and every transfer the client submitted
\* on such a mint ends with the failure entry.
C13_SoulboundNeverTransfers ==
  /\ \A a \in AllAtas :
       ledgerMints[a[1]].kind = "soulbound"
         => /\ ledgerAccounts[a].withheld = 0
            /\ a[2] # ledgerMints[a[1]].authority => ledgerAccounts[a].amount = 0
            /\ (a[1] = 1 /\ a[2] = ledgerMints[a[1]].authority)
                  => ledgerAccounts[a].amount >= DefaultMintAmount
  /\ \A op \in Ops :
       ( /\ op.kind = "transferWithFee" /\ op.submits > 0 /\ Done(op)
         /\ ledgerMints[op.mint].kind = "soulbound" )
       => op.result = FailureText(op.kind)

\* a withdraw-withheld request of a wallet that is not the fee-withdraw
\* authority the mint was created with
AuthorityMismatch(op) ==
  /\ op.kind = "withdrawWithheld"
  /\ op.mint # NoMint /\ op.w # NoKey
  /\ ledgerMints[op.mint].feeAuthority # op.w

\* C14: no step of a withdraw-withheld handler whose wallet is not the mint's
\* fee-withdraw authority changes the ledger, and such a handler ends with a
\* failure entry; a withheld amount decreases only in a step of a withdraw
\* handler whose wallet is that authority.
C14_WithdrawNeedsAuthority ==
  [][ /\ \A s \in Slots :
           (ops'[s] # ops[s] /\ AuthorityMismatch(ops'[s]))
             => /\ ledger' = ledger
                /\ ops'[s].pc = "done"
                      => ops'[s].result \in {FailureText("withdrawWithheld"),
                                             "Enter destination ATA pubkey"}
      /\ (\E a \in AllAtas : ledgerAccounts'[a].withheld < ledgerAccounts[a].withheld)
           => \E s \in Slots : /\ ops[s].kind = "withdrawWithheld"
                                /\ ops'[s] # ops[s]
                                /\ ledgerMints[ops[s].mint].feeAuthority = ops[s].w
    ]_vars

\* the wallet of R asked to withdraw the fees of the taxed mint W1 created,
\* the request was handed to the wallet and ended with the failure entry
C14_Witness ==
  \E op \in Ops : /\ AuthorityMismatch(op) /\ Done(op)
                  /\ ledgerMints[op.mint].kind = "taxed"
                  /\ ledgerMints[op.mint].feeAuthority = "W1" /\ op.w = "R"
                  /\ op.owner # NoKey /\ op.submits = 1
                  /\ op.result = FailureText(op.kind)

\* text was appended to the log
Logged(text) == \E i \in 1..Len(appended) : appended[i] = text

\* C15: a handler that has ended has recorded an outcome: it ended with an
\* entry (success or failure) and that entry was appended to the log, whatever
\* the amount it was given.
C15_EveryEndRecordsOutcome ==
  \A op \in Ops :
    (op.kind # "idle" /\ Done(op)) => (op.result # "" /\ Logged(op.result))

\* C16: a handler hands at most one transaction to the wallet and begins at
\* most one confirmation wait; from the submission it goes on to the
\* confirmation wait or ends with the failure entry, from the confirmation wait
\* it ends, and neither step submits again.
C16_SubmitsOnceNoRetry ==
  [][ \A s \in Slots :
        /\ ops'[s].submits <= 1 /\ ops'[s].confirms <= 1
        /\ (ops[s].pc = "send" /\ ops'[s] # ops[s])
              => /\ ops'[s].submits = ops[s].submits
                 /\ \/ /\ ops'[s].pc = "confirm"
                       /\ ops'[s].confirms = ops[s].confirms + 1
                    \/ /\ ops'[s].pc = "done"
                       /\ ops'[s].result = FailureText(ops[s].kind)
                       /\ ops'[s].calls = ops[s].calls
                       /\ ops'[s].confirms = ops[s].confirms
        /\ (ops[s].pc \in {"confirm", "rpc"} /\ ops'[s] # ops[s])
              => /\ ops'[s].pc = "done"
                 /\ ops'[s].result \in {FailureText(ops[s].kind), SuccessText(ops[s].kind)}
                 /\ ops'[s].submits = ops[s].submits
                 /\ ops'[s].confirms = ops[s].confirms
                 /\ ops'[s].calls = ops[s].calls
    ]_vars

\* the wallet rejected a mint-to: the handler ended with the failure entry
\* after one submission and no confirmation wait
C16_Witness ==
  \E op \in Ops : /\ op.kind = "mintTo" /\ Done(op)
                  /\ op.submits = 1 /\ op.calls = 1 /\ op.confirms = 0
                  /\ op.result = FailureText(op.kind)

\* C17: a mint-to or transfer-with-fee handler given an amount that is no
\* unsigned 64-bit integer (here: a fraction) makes no transport call, submits
\* nothing and ends with its failure entry in the log.
C17_UnrepresentableAmountFailsLocally ==
  \A op \in Ops :
    (op.kind \in {"mintTo", "transferWithFee"} /\ ~IsInteger(op.amt))
      => /\ op.calls = 0 /\ op.submits = 0
         /\ Done(op)
         /\ op.result = FailureText(op.kind)
         /\ Logged(FailureText(op.kind))

\* C18: the log holds the min(k, LogLimit) entries appended last, the newest
\* first, k being the number of entries appended so far.
C18_LogIsNewestFirstWindow ==
  LET k == Len(appended)
      n == Min(k, LogLimit) IN
  /\ Len(logs) = n
  /\ n <= LogLimit
  /\ \A i \in 1..n : logs[i] = appended[k + 1 - i]

\* more entries were appended than the log keeps, by handlers of which two
\* were in flight at the same time, and the oldest entries are gone
C18_Witness ==
  /\ Len(appended) > LogLimit + 2
  /\ Len(logs) = LogLimit
  /\ \A s \in Slots : ops[s].kind # "idle" /\ ops[s].calls > 0
  /\ logs[LogLimit] = appended[Len(appended) + 1 - LogLimit]
  /\ logs[1] # logs[2]

\* the workflow of the handler's mint has reached AccountReady: a mint is
\* selected and the recorded payer account is an account of that mint
AccountReady(op) == op.mint # NoMint /\ op.pa # NoAta /\ op.pa[1] = op.mint

\* the workflow has reached Funded: AccountReady and a mint-to to the payer
\* account was confirmed (it holds tokens)
Funded(op) == AccountReady(op) /\ ledgerAccounts[op.pa].amount > 0

C20_TransferOnlyWhenFunded ==
  \A op \in Ops :
    (op.kind = "transferWithFee" /\ op.submits > 0) => Funded(op)

\* C21: when the existence query of a create-account handler is rejected the
\* handler ends with its failure entry, has submitted nothing, and payerAta
\* and the ledger stay as they are; a create-account handler submits only after
\* the query answered that there is no account.
C21_QueryErrorPropagates ==
  [][ \A s \in Slots :
        /\ (ops[s].pc = "getAccountInfo" /\ ops'[s].answer = "error")
              => /\ ops'[s].pc = "done"
                 /\ ops'[s].result = FailureText(ops[s].kind)
                 /\ ops'[s].submits = 0
                 /\ logs' = pushLog(logs, FailureText(ops[s].kind))
                 /\ payerAta' = payerAta
                 /\ ledger' = ledger
        /\ (ops'[s].kind \in CreateAtaKinds /\ ops'[s].submits > 0)
              => ops'[s].answer = "null"
        /\ (ops[s].pc = "getAccountInfo" /\ ops'[s].submits > 0)
              => ~ledgerAccounts[ops[s].ata].exists
    ]_vars

\* the existence query of the payer handler was rejected: it ended with the
\* failure entry, nothing submitted, no payer account recorded
C21_Witness ==
  \E op \in Ops : /\ op.kind = "createPayerAta" /\ Done(op)
                  /\ op.answer = "error" /\ op.submits = 0
                  /\ op.result = FailureText(op.kind)
                  /\ payerAta = NoAta

InspectKinds == {"refreshPayerBalance", "inspectRecipient"}

\* C22: no step of an inspection handler (payer or recipient, ending in
\* success or failure) changes selectedMint, payerAta, the mint-amount field,
\* the wallet or the ledger, and an inspection never submits; payerBalance is
\* the only tracked field a step of an inspection changes, and only the step
\* in which the payer inspection got the account.
C22_InspectionOnlyObserves ==
  [][ \A s \in Slots :
        (ops'[s].kind \in InspectKinds /\ ops'[s] # ops[s])
          => /\ selectedMint' = selectedMint
             /\ payerAta' = payerAta
             /\ mintAmount' = mintAmount
             /\ ledger' = ledger
             /\ ops'[s].submits = 0 /\ ops'[s].confirms = 0
             /\ payerBalance' # payerBalance
                   => /\ ops'[s].kind = "refreshPayerBalance"
                      /\ ops[s].pc = "getAccount" /\ ops'[s].found
    ]_vars

\* the payer inspection got the funded account: the observed balance is the
\* minted amount, the mint and the payer account are the recorded ones
C22_Witness ==
  \E op \in Ops : /\ op.kind = "refreshPayerBalance" /\ Done(op) /\ op.found
                  /\ op.submits = 0
                  /\ payerBalance = DefaultMintAmount
                  /\ selectedMint = 1
                  /\ payerAta = getAssociatedTokenAddress(1, "W1")

\* C23: the payload the soulbound transfer attempt builds for amount 100000,
\* decimals 6 and fee 0 has 19 bytes, starts with 26, 1, and its amount field
\* (bytes 2..9) reads 100000, its decimals byte 6 and its fee field 0.
C23_SoulboundPayloadWellFormed ==
  ( /\ codecCase.data # <<>>
    /\ codecCase.amount = U64(34464, 1, 0, 0)
    /\ codecCase.decimals = 6
    /\ codecCase.fee = U64(0, 0, 0, 0) )
  => LET d == codecCase.data IN
     /\ Len(d) = 19
     /\ d[1] = 26 /\ d[2] = 1
     /\ readBigUInt64LE(d, 2) = codecCase.amount
     /\ d[11] = 6
     /\ readBigUInt64LE(d, 11) = codecCase.fee

\* C24: payerBalance changes only in the step in which the payer inspection
\* got the account, and becomes the amount of that account; no step of a
\* mint-to, transfer-with-fee, withdraw-withheld or create-mint handler changes
\* it.
C24_BalanceOnlyByInspection ==
  [][ /\ payerBalance' # payerBalance
           => \E s \in Slots : /\ ops[s].kind = "refreshPayerBalance"
                                /\ ops[s].pc = "getAccount"
                                /\ ops'[s].pc = "done" /\ ops'[s].found
                                /\ payerBalance' = ledgerAccounts'[ops[s].ata].amount
      /\ \A s \in Slots :
           ( /\ ops'[s].kind \in {"mintTo", "transferWithFee", "withdrawWithheld"}
                                   \cup CreateMintKinds
             /\ ops'[s] # ops[s] )
           => payerBalance' = payerBalance
    ]_vars

\* after an inspection observed the minted amount a further mint-to was
\* confirmed: the observed balance is behind the balance on the ledger
C24_Witness ==
  \E op \in Ops : /\ op.kind = "mintTo" /\ Done(op) /\ op.status = "ok"
                  /\ op.result = SuccessText(op.kind)
                  /\ payerBalance = DefaultMintAmount
                  /\ ledgerAccounts[op.pa].amount = 2 * DefaultMintAmount

\* C25: no step of the recipient create-account handler changes selectedMint,
\* payerAta or payerBalance, whoever the recipient owner is; payerAta changes
\* only in a step of the payer create-account handler.
C25_RecipientAtaLeavesTracked ==
  [][ /\ \A s \in Slots :
           (ops'[s].kind = "createRecipientAta" /\ ops'[s] # ops[s])
           => /\ selectedMint' = selectedMint
              /\ payerAta' = payerAta
              /\ payerBalance' = payerBalance
      /\ payerAta' # payerAta
           => \E s \in Slots : /\ ops'[s].kind = "createPayerAta"
                                /\ ops'[s] # ops[s]
                                /\ payerAta' = ops'[s].ata
    ]_vars

\* the recipient handler created the account of the connected wallet itself:
\* it exists on the ledger and payerAta is still unset
C25_Witness ==
  \E op \in Ops : /\ op.kind = "createRecipientAta" /\ Done(op)
                  /\ op.owner = op.w /\ op.w = wallet
                  /\ ~op.existed /\ op.submits = 1
                  /\ op.result = SuccessText(op.kind)
                  /\ ledgerAccounts[op.ata].exists
                  /\ payerAta = NoAta

====
